---- MODULE Spec2Model ----
(***************************************************************************)
(* Model of the two one-shot utilities of guacamole-export:                *)
(*   rdm_to_guac_json.py  - the document converter (RDM XML -> JSON list)  *)
(*   guacamole-export.py  - the database exporter (PostgreSQL -> JSON)     *)
(*                                                                         *)
(* Python strings are sequences of one-character strings, so that          *)
(* concatenation, str.isdigit, int() and str.replace are computed and not  *)
(* assumed.  Python's None and "find() found no element" are the two       *)
(* sentinels None and NoElem below.  Python dict objects that are shared   *)
(* by reference live in `heap`; `connections` holds references into it.    *)
(***************************************************************************)
EXTENDS Integers, Sequences, FiniteSets, TLC

VARIABLES
    \* ---- rdm_to_guac_json.py ----
    pc,               \* position of the converter's command-line run
    argv_len,         \* len(sys.argv)
    doc,              \* root.findall('.//Connection'), in document order
    idx,              \* number of elements the for loop has consumed
    connections,      \* the list `connections`: references into heap
    heap,             \* the dict objects built so far (guac_connection values)
    used_names,       \* the set `used_names`
    guac_connection,  \* the local `guac_connection`: a reference, 0 = unbound
    protocol,         \* the local `protocol`, Unbound before its first assignment
    result,           \* what the run returned / printed
    exit_code,        \* process exit status, meaningful once pc = "exited"
    \* ---- guacamole-export.py ----
    db_pc,            \* position of main()
    conn,             \* the database session: "none", "open", "closed"
    cursor,           \* the cursor: "none", "open", "closed"
    raw_data,         \* rows returned by fetch_connections_and_params
    row_i,            \* rows consumed by build_connection_dict's loop
    connections_map,  \* the insertion-ordered dict, as a sequence of [id, rec]
    connections_list, \* list(connections_map.values())
    file_written,     \* whether the output file was written
    db_exit           \* process exit status, meaningful once db_pc = "exited"

cvars == <<pc, argv_len, doc, idx, connections, heap, used_names,
           guac_connection, protocol, result, exit_code>>
dvars == <<db_pc, conn, cursor, raw_data, row_i, connections_map,
           connections_list, file_written, db_exit>>
vars == <<cvars, dvars>>

----------------------------------------------------------------------------
\* Bounds of the model
MaxElems == 3
MaxRows == 3

----------------------------------------------------------------------------
\* Python values

None == <<"None">>        \* Python None (as an element's .text: no text)
NoElem == <<"NoElem">>    \* find() returned None: the sub-element is absent
Unbound == <<"Unbound">>  \* a local variable that was never assigned
NoExc == "none"

\* String literals used by the program and by the inputs
S_SSHShell == <<"S","S","H","S","h","e","l","l">>
S_RDP == <<"R","D","P">>
S_RDPConfigured == <<"R","D","P","C","o","n","f","i","g","u","r","e","d">>
S_VNC == <<"V","N","C">>
S_SSH == <<"S","S","H">>
S_ssh == <<"s","s","h">>
S_rdp == <<"r","d","p">>
S_vnc == <<"v","n","c">>
S_None == <<"N","o","n","e">>
S_ROOT == <<"R","O","O","T","/">>
S_FitToWindow == <<"F","i","t","T","o","W","i","n","d","o","w">>
S_FullScreen == <<"F","u","l","l","S","c","r","e","e","n">>
S_scale == <<"s","c","a","l","e">>
S_none == <<"n","o","n","e">>
Sup2 == "sup2"            \* the one character U+00B2 (superscript two)

DecimalChars == {"0","1","2","3","4","5","6","7","8","9"}

DigitVal(c) ==
    CASE c = "0" -> 0 [] c = "1" -> 1 [] c = "2" -> 2 [] c = "3" -> 3
      [] c = "4" -> 4 [] c = "5" -> 5 [] c = "6" -> 6 [] c = "7" -> 7
      [] c = "8" -> 8 [] c = "9" -> 9

DigitChar(d) ==
    CASE d = 0 -> "0" [] d = 1 -> "1" [] d = 2 -> "2" [] d = 3 -> "3"
      [] d = 4 -> "4" [] d = 5 -> "5" [] d = 6 -> "6" [] d = 7 -> "7"
      [] d = 8 -> "8" [] d = 9 -> "9"

\* str.isdigit(): non-empty and every character has the Unicode digit
\* property, which the superscript digits have too
IsDigit(s) ==
    /\ Len(s) > 0
    /\ \A k \in 1..Len(s) : s[k] \in DecimalChars \cup {Sup2}

RECURSIVE DecimalValue(_)
DecimalValue(s) ==
    IF s = <<>> THEN 0
    ELSE 10 * DecimalValue(SubSeq(s, 1, Len(s) - 1)) + DigitVal(s[Len(s)])

\* int(s) for a string that passed isdigit(): ValueError unless every
\* character is a decimal digit
IntOf(s) ==
    IF \A k \in 1..Len(s) : s[k] \in DecimalChars
    THEN [exc |-> NoExc, val |-> DecimalValue(s)]
    ELSE [exc |-> "ValueError", val |-> 0]

\* str(n) for n >= 0
RECURSIVE StrOfInt(_)
StrOfInt(n) ==
    IF n < 10 THEN <<DigitChar(n)>>
    ELSE StrOfInt(n \div 10) \o <<DigitChar(n % 10)>>

\* f"{t}" for a text value (None formats as "None")
StrOfText(t) == IF t = None THEN S_None ELSE t

\* bool(t) for a text value
Truthy(t) == t # None /\ t # <<>>

\* s.replace('\\', '/')
ReplaceBackslash(s) == [k \in 1..Len(s) |-> IF s[k] = "\\" THEN "/" ELSE s[k]]

\* x.text if x is not None else ''
TextOr(elem) == IF elem = NoElem THEN <<>> ELSE elem

\* Default ports
SSH_PORT == 22
RDP_PORT == 3389
VNC_PORT == 5900

\* int(port_elem.text) if port_elem is not None and port_elem.text.isdigit() else default
ParsePort(port_elem, default) ==
    IF port_elem = NoElem THEN [exc |-> NoExc, val |-> default]
    ELSE IF port_elem = None THEN [exc |-> "AttributeError", val |-> 0]
    ELSE IF ~IsDigit(port_elem) THEN [exc |-> NoExc, val |-> default]
    ELSE IntOf(port_elem)

\* 'ROOT/' + rdm_group_path.replace('\\', '/'), added only when the path is truthy
WithGroup(rec, group_elem) ==
    LET rdm_group_path == TextOr(group_elem)
    IN IF Truthy(rdm_group_path)
       THEN rec @@ ("group" :> S_ROOT \o ReplaceBackslash(rdm_group_path))
       ELSE rec

\* name_elem.text if name_elem is not None else f"<TYPE>_{host}:{port}"
NameOr(name_elem, label, host, port) ==
    IF name_elem # NoElem THEN name_elem
    ELSE label \o <<"_">> \o StrOfText(host) \o <<":">> \o StrOfInt(port)

----------------------------------------------------------------------------
\* rdm_to_guac_json.py: convert_rdm_to_guac_json
\*
\* A Connection element is a record
\*   ctype    text of ConnectionType (NoElem: no such sub-element)
\*   sect     whether the section of its own type (Terminal / RDP / VNC) exists
\*   name, group            text of Name / Group under the element
\*   host, port, user, pw   text of the section's host, port, user name and
\*                          concealed password sub-elements (Host, HostPort or
\*                          Port, Username / UserName / MsUser, SafePassword /
\*                          MsSafePassword)
\*   hostKids whether the Host element has child elements (its truth value)
\*   url      text of Url under the element (RDP falls back to it)
\*   command  text of Terminal/RemoteCommand; domain, screen: RDP/Domain and
\*            RDP/ScreenSizingMode
\* Every text field is NoElem (absent), None (present, no text) or a string.

\* SshParameters with the commented-out "password" entry left in
SshParametersWithPassword(host, port, username, password, command) ==
    [hostname |-> host, port |-> port, username |-> username,
     password |-> password,
     command |-> IF Truthy(command) THEN command ELSE <<>>]
      @@ ("remote-app" :> IF Truthy(command) THEN command ELSE <<>>)

\* The "parameters" dict of an SSH record
SshParameters(host, port, username, password, command) ==
    [hostname |-> host, port |-> port, username |-> username,
     command |-> IF Truthy(command) THEN command ELSE <<>>]
      @@ ("remote-app" :> IF Truthy(command) THEN command ELSE <<>>)

\* The "parameters" dict of an RDP record
RdpParameters(host, port, username, password, domain, screen_mode) ==
    LET base == [hostname |-> host, port |-> port, username |-> username]
        withDomain == IF Truthy(domain) THEN base @@ ("domain" :> domain) ELSE base
    IN IF screen_mode = S_FitToWindow
       THEN withDomain @@ ("resize-method" :> S_scale)
       ELSE IF screen_mode = S_FullScreen
            THEN withDomain @@ ("resize-method" :> S_none)
            ELSE withDomain

\* The "parameters" dict of a VNC record
VncParameters(host, port, username, password) ==
    LET base == [hostname |-> host, port |-> port]
    IN IF Truthy(username) THEN base @@ ("username" :> username) ELSE base

\* The SSHShell branch once Terminal was found
BuildSSH(e) ==
    LET p == ParsePort(e.port, SSH_PORT)
        host == TextOr(e.host)
        username == TextOr(e.user)
        password == TextOr(e.pw)
        command == TextOr(e.command)
    IN IF p.exc # NoExc THEN [exc |-> p.exc]
       ELSE [exc |-> NoExc,
             protocol |-> S_SSH,
             rec |-> WithGroup(
                 [name |-> NameOr(e.name, S_SSH, host, p.val),
                  protocol |-> S_ssh,
                  parameters |-> SshParameters(host, p.val, username, password, command)],
                 e.group)]

\* The RDP / RDPConfigured branch once the RDP section was found.
\* `a or b` on elements takes b unless a exists and has child elements.
BuildRDP(e) ==
    LET host_elem == IF e.host # NoElem /\ e.hostKids THEN e.host ELSE e.url
        p == ParsePort(e.port, RDP_PORT)
        host == TextOr(host_elem)
        username == TextOr(e.user)
        password == TextOr(e.pw)
        domain == TextOr(e.domain)
        screen_mode == TextOr(e.screen)
    IN IF p.exc # NoExc THEN [exc |-> p.exc]
       ELSE [exc |-> NoExc,
             protocol |-> S_RDP,
             rec |-> WithGroup(
                 [name |-> NameOr(e.name, S_RDP, host, p.val),
                  protocol |-> S_rdp,
                  parameters |-> RdpParameters(host, p.val, username, password,
                                               domain, screen_mode)],
                 e.group)]

\* The VNC branch once the VNC section was found
BuildVNC(e) ==
    LET p == ParsePort(e.port, VNC_PORT)
        host == TextOr(e.host)
        password == TextOr(e.pw)
        username == TextOr(e.user)
    IN IF p.exc # NoExc THEN [exc |-> p.exc]
       ELSE [exc |-> NoExc,
             protocol |-> S_VNC,
             rec |-> WithGroup(
                 [name |-> NameOr(e.name, S_VNC, host, p.val),
                  protocol |-> S_vnc,
                  parameters |-> VncParameters(host, p.val, username, password)],
                 e.group)]

\* Handled with the RDPConfigured alternative forgotten
HandledWithoutConfigured(conn_type) ==
    conn_type \in {S_SSHShell, S_RDP, S_VNC}

\* The if / elif chain on conn_type: FALSE is the final else (continue)
Handled(conn_type) ==
    conn_type \in {S_SSHShell, S_RDP, S_RDPConfigured, S_VNC}

\* State after the branch of the element's type.  A branch whose section is
\* missing assigns nothing: guac_connection and protocol keep the values the
\* previous iterations left.
Branch(s, e) ==
    IF ~e.sect THEN s
    ELSE LET b == IF e.ctype = S_SSHShell THEN BuildSSH(e)
                  ELSE IF e.ctype \in {S_RDP, S_RDPConfigured} THEN BuildRDP(e)
                  ELSE BuildVNC(e)
         IN IF b.exc # NoExc THEN [s EXCEPT !.exc = b.exc]
            ELSE [s EXCEPT !.heap = Append(@, b.rec),
                           !.guac_connection = Len(s.heap) + 1,
                           !.protocol = b.protocol]

\* Candidate with the numeric suffix appended from the first pass on
CandidateSuffixAlways(original_name, label, counter) ==
    StrOfText(original_name) \o <<" ", "(">> \o label \o <<")">>
      \o (IF counter >= 1 THEN <<"_">> \o StrOfInt(counter) ELSE <<>>)

\* The name tried in one pass of the while loop
Candidate(original_name, label, counter) ==
    StrOfText(original_name) \o <<" ", "(">> \o label \o <<")">>
      \o (IF counter > 1 THEN <<"_">> \o StrOfInt(counter) ELSE <<>>)

\* while unique_name in used_names: ...
RECURSIVE WhileUsed(_, _, _, _, _)
WhileUsed(unique_name, counter, original_name, label, used) ==
    IF unique_name \in used
    THEN WhileUsed(Candidate(original_name, label, counter), counter + 1,
                   original_name, label, used)
    ELSE unique_name

\* The name uniqueness check and the append.  guac_connection["name"] = ...
\* writes through the reference: a dict already in the list is changed too.
NameUniqueness(s) ==
    IF s.guac_connection = 0 THEN [s EXCEPT !.exc = "UnboundLocalError"]
    ELSE LET original_name == s.heap[s.guac_connection].name
             unique_name == WhileUsed(original_name, 1, original_name,
                                      s.protocol, s.used_names)
         IN [s EXCEPT !.heap[s.guac_connection].name = unique_name,
                      !.used_names = @ \cup {unique_name},
                      !.connections = Append(@, s.guac_connection)]

\* One iteration of the for loop over the Connection elements
Step(s, e) ==
    IF e.ctype = NoElem THEN s
    ELSE IF ~Handled(e.ctype) THEN s
    ELSE LET b == Branch(s, e)
         IN IF b.exc # NoExc THEN b ELSE NameUniqueness(b)

----------------------------------------------------------------------------
\* Input documents: the Connection elements a well-formed export can hold

S_Server1 == <<"S","e","r","v","e","r","1">>
S_host == <<"h","1">>
S_enc == <<"x","9">>       \* a concealed (encrypted) password text
S_Telnet == <<"T","e","l","n","e","t">>

\* An element of type ct with its section, named Server1, every optional
\* sub-element of the section absent except Host
Elem(ct) ==
    [ctype |-> ct, sect |-> TRUE, name |-> S_Server1, group |-> NoElem,
     host |-> S_host, hostKids |-> FALSE, url |-> NoElem, port |-> NoElem,
     user |-> NoElem, pw |-> NoElem, command |-> NoElem, domain |-> NoElem,
     screen |-> NoElem]

Elems ==
    { \* SSHShell
      Elem(S_SSHShell),
      [Elem(S_SSHShell) EXCEPT !.port = <<"2","2","2","2">>, !.pw = S_enc,
                               !.group = <<"A","\\","B","\\","C">>,
                               !.user = <<"u">>, !.command = <<"l","s">>],
      [Elem(S_SSHShell) EXCEPT !.name = NoElem, !.port = <<"1","2","a">>,
                               !.host = None, !.pw = None],
      [Elem(S_SSHShell) EXCEPT !.port = None],
      [Elem(S_SSHShell) EXCEPT !.sect = FALSE],
      \* RDP and RDPConfigured
      [Elem(S_RDP) EXCEPT !.pw = S_enc],
      [Elem(S_RDP) EXCEPT !.port = <<"0","8","0">>, !.url = <<"u","1">>,
                          !.domain = <<"D">>, !.screen = S_FitToWindow,
                          !.name = <<"S","e","r","v","e","r","1"," ","(","R","D","P",")">>],
      [Elem(S_RDPConfigured) EXCEPT !.name = None, !.group = None,
                                    !.hostKids = TRUE, !.user = None,
                                    !.screen = S_FullScreen],
      [Elem(S_RDP) EXCEPT !.sect = FALSE],
      \* VNC
      [Elem(S_VNC) EXCEPT !.user = <<"u">>, !.pw = S_enc, !.port = <<"5","9","0","1">>,
                          !.host = NoElem],
      [Elem(S_VNC) EXCEPT !.port = <<Sup2>>, !.user = None],
      [Elem(S_VNC) EXCEPT !.sect = FALSE],
      \* not converted
      Elem(S_Telnet),
      [Elem(S_Telnet) EXCEPT !.ctype = None],
      [Elem(S_SSHShell) EXCEPT !.ctype = NoElem] }

Docs == UNION {[1..n -> Elems] : n \in 0..MaxElems}

----------------------------------------------------------------------------
\* rdm_to_guac_json.py: the command-line run

\* The locals of convert_rdm_to_guac_json as one record
Cur ==
    [connections |-> connections, heap |-> heap, used_names |-> used_names,
     guac_connection |-> guac_connection, protocol |-> protocol, exc |-> NoExc]

\* The state of the function as it enters the for loop
Fresh ==
    [connections |-> <<>>, heap |-> <<>>, used_names |-> {},
     guac_connection |-> 0, protocol |-> Unbound, exc |-> NoExc]

\* len(sys.argv) != 2: usage message, sys.exit(1)
UsageError ==
    /\ pc = "start"
    /\ \E n \in {1, 3} : argv_len' = n
    /\ result' = "usage"
    /\ exit_code' = 1
    /\ pc' = "exited"
    /\ UNCHANGED <<doc, idx, connections, heap, used_names, guac_connection, protocol>>
    /\ UNCHANGED dvars

\* os.path.exists(xml_file_path) is false: the error string is returned
FileNotFound ==
    /\ pc = "start"
    /\ argv_len' = 2
    /\ result' = "Error: File not found"
    /\ pc' = "print"
    /\ UNCHANGED <<doc, idx, connections, heap, used_names, guac_connection,
                   protocol, exit_code>>
    /\ UNCHANGED dvars

\* ET.parse raises ParseError, or any other exception: an error string is returned
ParseFailure ==
    /\ pc = "start"
    /\ argv_len' = 2
    /\ \E r \in {"Error parsing XML file", "Error reading file"} : result' = r
    /\ pc' = "print"
    /\ UNCHANGED <<doc, idx, connections, heap, used_names, guac_connection,
                   protocol, exit_code>>
    /\ UNCHANGED dvars

\* ET.parse succeeds; connections = [], used_names = set(), the loop begins
ParseOk ==
    /\ pc = "start"
    /\ argv_len' = 2
    /\ \E d \in Docs : doc' = d
    /\ idx' = 0
    /\ connections' = <<>>
    /\ heap' = <<>>
    /\ used_names' = {}
    /\ pc' = "loop"
    /\ UNCHANGED <<guac_connection, protocol, result, exit_code>>
    /\ UNCHANGED dvars

\* One iteration of the for loop.  An exception is caught nowhere: the
\* interpreter prints the traceback and the process ends with status 1.
ProcessElement ==
    /\ pc = "loop"
    /\ idx < Len(doc)
    /\ LET s == Step(Cur, doc[idx + 1])
       IN /\ idx' = idx + 1
          /\ connections' = s.connections
          /\ heap' = s.heap
          /\ used_names' = s.used_names
          /\ guac_connection' = s.guac_connection
          /\ protocol' = s.protocol
          /\ IF s.exc # NoExc
             THEN /\ pc' = "exited"
                  /\ result' = s.exc
                  /\ exit_code' = 1
             ELSE UNCHANGED <<pc, result, exit_code>>
    /\ UNCHANGED <<argv_len, doc>>
    /\ UNCHANGED dvars

\* The loop is over: json.dumps(connections) or the no-connections message
ReturnResult ==
    /\ pc = "loop"
    /\ idx = Len(doc)
    /\ result' = IF connections # <<>> THEN "json" ELSE "No supported connections"
    /\ pc' = "print"
    /\ UNCHANGED <<argv_len, doc, idx, connections, heap, used_names,
                   guac_connection, protocol, exit_code>>
    /\ UNCHANGED dvars

\* print(result_json) and the end of the script: status 0
PrintAndExit ==
    /\ pc = "print"
    /\ exit_code' = 0
    /\ pc' = "exited"
    /\ UNCHANGED <<argv_len, doc, idx, connections, heap, used_names,
                   guac_connection, protocol, result>>
    /\ UNCHANGED dvars

\* The for loop over the first k elements of d, from the function's start;
\* it stops at the first exception
RECURSIVE RunTo(_, _)
RunTo(d, k) ==
    IF k = 0 THEN Fresh
    ELSE LET s == RunTo(d, k - 1)
         IN IF s.exc # NoExc THEN s ELSE Step(s, d[k])

\* What json.dumps serialises: the list with every reference followed
Output == [k \in 1..Len(connections) |-> heap[connections[k]]]

Init ==
    /\ pc = "start"
    /\ argv_len = 0
    /\ doc = <<>>
    /\ idx = 0
    /\ connections = <<>>
    /\ heap = <<>>
    /\ used_names = {}
    /\ guac_connection = 0
    /\ protocol = Unbound
    /\ result = "none"
    /\ exit_code = 0
    /\ db_pc = "start"
    /\ conn = "none"
    /\ cursor = "none"
    /\ raw_data = <<>>
    /\ row_i = 0
    /\ connections_map = <<>>
    /\ connections_list = <<>>
    /\ file_written = FALSE
    /\ db_exit = 0

NextConv ==
    \/ UsageError
    \/ FileNotFound
    \/ ParseFailure
    \/ ParseOk
    \/ ProcessElement
    \/ ReturnResult
    \/ PrintAndExit

SpecConv == Init /\ [][NextConv]_vars

----------------------------------------------------------------------------
\* Properties of the document converter

NormalResults == {"json", "No supported connections"}
Exceptions == {"UnboundLocalError", "AttributeError", "ValueError"}

\* The document was parsed and the loop was entered
Parsed == pc = "loop" \/ (pc \in {"print", "exited"} /\ result \in NormalResults \cup Exceptions)

\* The four connection types the spec names as recognised
FourTypes == {S_SSHShell, S_RDP, S_RDPConfigured, S_VNC}
Recognised(e) == e.ctype # NoElem /\ e.ctype \in FourTypes

\* Number of recognised elements among the first k of the document
RecognisedUpTo(k) == Cardinality({j \in 1..k : Recognised(doc[j])})

Names == [k \in 1..Len(connections) |-> Output[k].name]

\* C1: the names of the records of the output list are pairwise distinct,
\* whatever elements were processed (elements lacking their section included).
C1_NamesDistinct ==
    \A i, j \in 1..Len(connections) : i # j => Names[i] # Names[j]

\* C3: the run exits non-zero on usage error, missing file and parse
\* failure, and exits zero only when conversion produced its normal result.
C3_ExitStatus ==
    pc = "exited" => (exit_code = 0 <=> result \in NormalResults)

\* C4: for every well-formed document the run completes with the JSON list
\* or the no-supported-connections message; no element aborts it.
C4_RunsToCompletion ==
    (Parsed /\ pc = "exited") => result \in NormalResults

\* C5: in every run that completes the output list has one record per
\* element of a recognised type, and an element of any other type leaves the
\* output list and the used-names set as they were.
C5_RecordCount ==
    /\ [](Parsed /\ result \in NormalResults
            => Len(connections) = RecognisedUpTo(Len(doc)))
    /\ [][(pc = "loop" /\ idx < Len(doc) /\ ~Recognised(doc[idx + 1]))
            => (Output' = Output /\ used_names' = used_names)]_vars

C5_Witness ==
    /\ pc = "exited" /\ result = "json"
    /\ Len(doc) = 3 /\ Len(connections) = 2
    /\ \E k \in 1..Len(doc) : Recognised(doc[k]) /\ ~doc[k].sect
    /\ \E k \in 1..Len(doc) : ~Recognised(doc[k])

Suffixed(N, label) == StrOfText(N) \o <<" ", "(">> \o label \o <<")">>

\* The step appends a record whose candidate name collides exactly once
FirstCollision ==
    /\ pc = "loop" /\ idx < Len(doc)
    /\ Len(connections') = Len(connections) + 1
    /\ LET b == Branch(Cur, doc[idx + 1])
           N == b.heap[b.guac_connection].name
       IN N \in used_names /\ Suffixed(N, b.protocol) \notin used_names

\* The candidate name of the element being processed
CandidateName ==
    LET b == Branch(Cur, doc[idx + 1]) IN b.heap[b.guac_connection].name

UpperLabel(ct) ==
    IF ct = S_SSHShell THEN S_SSH ELSE IF ct = S_VNC THEN S_VNC ELSE S_RDP

S_Server1_RDP == <<"S","e","r","v","e","r","1"," ","(","R","D","P",")">>

\* C6 as stated: on the first collision the emitted name is N followed by
\* " (<protocol>)", <protocol> being the protocol of the emitted record
\* ("rdp" for an RDP element).
C6_LowerCaseSuffix ==
    [][FirstCollision
         => Output'[Len(connections')].name
              = Suffixed(CandidateName, Output'[Len(connections')].protocol)]_vars

\* C6 amended: on the first collision the emitted name is N followed by
\* " (<LABEL>)" with no numeric suffix, <LABEL> being the upper-case label
\* SSH, RDP or VNC that the last record-building element assigned to
\* `protocol` (the element's own type when it has its section); two elements
\* named Server1, the second an RDP element, give Server1 and Server1 (RDP).
C6_UpperCaseSuffix ==
    /\ [][FirstCollision
            => /\ Output'[Len(connections')].name = Suffixed(CandidateName, protocol')
               /\ protocol' \in {S_SSH, S_RDP, S_VNC}
               /\ doc[idx + 1].sect => protocol' = UpperLabel(doc[idx + 1].ctype)]_vars
    /\ []((pc = "loop" /\ idx = 2 /\ doc[1] = Elem(S_SSHShell)
             /\ doc[2] = [Elem(S_RDP) EXCEPT !.pw = S_enc])
            => Names = <<S_Server1, S_Server1_RDP>>)

C6_Witness ==
    /\ pc = "exited" /\ result = "json"
    /\ Len(doc) = 2 /\ doc[1].name = S_Server1 /\ doc[2].name = S_Server1
    /\ doc[2].ctype = S_RDP /\ doc[2].sect
    /\ Names = <<S_Server1, S_Server1_RDP>>

\* The document with every concealed password sub-element removed
Strip(d) == [k \in 1..Len(d) |-> [d[k] EXCEPT !.pw = NoElem]]

\* C8: the converter's state and output are those of the run on the same
\* document without its SafePassword / MsSafePassword sub-elements (so two
\* documents differing only there agree), and no parameter map has a
\* "password" key.
C8_PasswordIndependent ==
    Parsed =>
      /\ LET t == RunTo(Strip(doc), idx)
         IN /\ connections = t.connections
            /\ heap = t.heap
            /\ used_names = t.used_names
            /\ (t.exc # NoExc) <=> (pc = "exited" /\ result = t.exc)
      /\ \A k \in 1..Len(heap) : "password" \notin DOMAIN heap[k].parameters

C8_Witness ==
    /\ pc = "exited" /\ result = "json"
    /\ Len(connections) = 3
    /\ \A k \in 1..3 : doc[k].sect /\ Recognised(doc[k]) /\ doc[k].pw = S_enc
    /\ {doc[k].ctype : k \in 1..3} = {S_SSHShell, S_RDP, S_VNC}

\* The port the claim requires for a recognised element: the integer value of
\* an all-digit text, else the default of the element's type
TypeDefault(ct) ==
    IF ct = S_SSHShell THEN 22 ELSE IF ct = S_VNC THEN 5900 ELSE 3389

ClaimedPort(e) ==
    LET t == IF e.sect THEN e.port ELSE NoElem
    IN IF t # NoElem /\ t # None /\ Len(t) > 0
          /\ (\A k \in 1..Len(t) : t[k] \in DecimalChars)
       THEN DecimalValue(t)
       ELSE TypeDefault(e.ctype)

\* C9: every recognised element that was processed has its record, whose
\* parameters.port is the integer value of an all-digit port text and the
\* type default (22, 3389, 5900) in every other case.
C9_PortValue ==
    Parsed =>
      \A k \in 1..idx :
        Recognised(doc[k]) =>
          /\ RecognisedUpTo(k) <= Len(connections)
          /\ Output[RecognisedUpTo(k)].parameters.port = ClaimedPort(doc[k])

----------------------------------------------------------------------------
\* guacamole-export.py

NULL == "<NULL>"          \* SQL NULL, None in the fetched tuple

\* The rows the query can return: (connection_id, connection_name,
\* group_path, protocol, parameter_name, parameter_value), in the order of
\* the SELECT list.  The outer join gives one row with both parameter
\* columns NULL to a connection without parameters.
ConnIds == {5, 7}
ConnColumns == {<<"srv", "ROOT/lab", "rdp">>, <<"db", "ROOT/", "ssh">>}
ParamColumns == {<<NULL, NULL>>, <<"hostname", "10.0.0.1">>,
                 <<"port", "3389">>, <<"port", "3390">>}
Rows == {<<i, c[1], c[2], c[3], q[1], q[2]>> :
            i \in ConnIds, c \in ConnColumns, q \in ParamColumns}
RowSeqs == UNION {[1..n -> Rows] : n \in 0..MaxRows}

EmptyDict == [k \in {} |-> k]

\* NewRecord with the two unpacked columns taken at face value of their names
NewRecordSwapped(name, parent_id, group_name) ==
    [name |-> name, protocol |-> parent_id, group |-> group_name,
     parameters |-> EmptyDict]

\* The dict created for a connection id seen for the first time
NewRecord(name, parent_id, group_name) ==
    [name |-> name, protocol |-> group_name, group |-> parent_id,
     parameters |-> EmptyDict]

\* SetParameter keeping the value already stored
SetParameterKeepFirst(parameters, param_name, param_value) ==
    parameters @@ (param_name :> param_value)

\* parameters[param_name] = param_value
SetParameter(parameters, param_name, param_value) ==
    (param_name :> param_value) @@ parameters

\* Position of conn_id among the keys of the dict, 0 when it is not a key
KeyIndex(map, conn_id) ==
    IF \E k \in 1..Len(map) : map[k].id = conn_id
    THEN CHOOSE k \in 1..Len(map) : map[k].id = conn_id
    ELSE 0

\* The body of build_connection_dict's loop for one row
FoldRow(map, row) ==
    LET conn_id == row[1]
        name == row[2]
        parent_id == row[3]
        group_name == row[4]
        param_name == row[5]
        param_value == row[6]
        m == IF KeyIndex(map, conn_id) = 0
             THEN Append(map, [id |-> conn_id,
                               rec |-> NewRecord(name, parent_id, group_name)])
             ELSE map
        k == KeyIndex(m, conn_id)
    IN IF param_name # NULL
       THEN [m EXCEPT ![k].rec.parameters = SetParameter(@, param_name, param_value)]
       ELSE m

\* not all([DB_HOST, DB_PORT, DB_NAME, DB_USER, DB_PASS]): sys.exit(1)
ConfigError ==
    /\ db_pc = "start"
    /\ db_pc' = "exited"
    /\ db_exit' = 1
    /\ UNCHANGED <<conn, cursor, raw_data, row_i, connections_map,
                   connections_list, file_written>>
    /\ UNCHANGED cvars

\* connect_to_db: psycopg2.connect raises, sys.exit(1)
ConnectFail ==
    /\ db_pc = "start"
    /\ db_pc' = "exited"
    /\ db_exit' = 1
    /\ UNCHANGED <<conn, cursor, raw_data, row_i, connections_map,
                   connections_list, file_written>>
    /\ UNCHANGED cvars

\* connect_to_db returns the open session
ConnectOk ==
    /\ db_pc = "start"
    /\ conn' = "open"
    /\ db_pc' = "fetch"
    /\ UNCHANGED <<cursor, raw_data, row_i, connections_map,
                   connections_list, file_written, db_exit>>
    /\ UNCHANGED cvars

\* fetch_connections_and_params: the query succeeds, finally closes the cursor
FetchOk ==
    /\ db_pc = "fetch"
    /\ \E rows \in RowSeqs : raw_data' = rows
    /\ cursor' = "closed"
    /\ row_i' = 0
    /\ connections_map' = <<>>
    /\ db_pc' = "build"
    /\ UNCHANGED <<conn, connections_list, file_written, db_exit>>
    /\ UNCHANGED cvars

\* fetch_connections_and_params: psycopg2.Error, sys.exit(1); finally closes
\* the cursor; main has no handler around the call, the process ends
FetchFail ==
    /\ db_pc = "fetch"
    /\ cursor' = "closed"
    /\ db_pc' = "exited"
    /\ db_exit' = 1
    /\ UNCHANGED <<conn, raw_data, row_i, connections_map, connections_list,
                   file_written>>
    /\ UNCHANGED cvars

\* build_connection_dict: one iteration of the loop over rows
BuildRow ==
    /\ db_pc = "build"
    /\ row_i < Len(raw_data)
    /\ connections_map' = FoldRow(connections_map, raw_data[row_i + 1])
    /\ row_i' = row_i + 1
    /\ UNCHANGED <<db_pc, conn, cursor, raw_data, connections_list,
                   file_written, db_exit>>
    /\ UNCHANGED cvars

\* build_connection_dict: return list(connections_map.values())
BuildReturn ==
    /\ db_pc = "build"
    /\ row_i = Len(raw_data)
    /\ connections_list' = [k \in 1..Len(connections_map) |-> connections_map[k].rec]
    /\ db_pc' = "write"
    /\ UNCHANGED <<conn, cursor, raw_data, row_i, connections_map,
                   file_written, db_exit>>
    /\ UNCHANGED cvars

\* main: the file is written; finally closes the session
WriteOk ==
    /\ db_pc = "write"
    /\ file_written' = TRUE
    /\ conn' = "closed"
    /\ db_pc' = "exited"
    /\ db_exit' = 0
    /\ UNCHANGED <<cursor, raw_data, row_i, connections_map, connections_list>>
    /\ UNCHANGED cvars

\* main: IOError while writing, sys.exit(1); finally closes the session
WriteFail ==
    /\ db_pc = "write"
    /\ conn' = "closed"
    /\ db_pc' = "exited"
    /\ db_exit' = 1
    /\ UNCHANGED <<cursor, raw_data, row_i, connections_map, connections_list,
                   file_written>>
    /\ UNCHANGED cvars

NextDb ==
    \/ ConfigError
    \/ ConnectFail
    \/ ConnectOk
    \/ FetchOk
    \/ FetchFail
    \/ BuildRow
    \/ BuildReturn
    \/ WriteOk
    \/ WriteFail

SpecDb == Init /\ [][NextDb]_vars

----------------------------------------------------------------------------
\* Properties of the database exporter

\* C2: once connect_to_db has returned an open session, the session is
\* closed before the process ends, on every exit path.
C2_SessionClosed ==
    (db_pc = "exited" /\ conn # "none") => conn = "closed"

\* The rows folded so far
Folded == SubSeq(raw_data, 1, row_i)

\* Index in Folded of the first row of connection id c
FirstRowOf(c) == CHOOSE k \in 1..row_i : raw_data[k][1] = c /\ \A j \in 1..(k - 1) : raw_data[j][1] # c

\* The connection ids of the rows folded so far, each once, in the order of
\* their first rows
RECURSIVE FirstSeen(_)
FirstSeen(rows) ==
    IF rows = <<>> THEN <<>>
    ELSE LET front == FirstSeen(SubSeq(rows, 1, Len(rows) - 1))
             c == rows[Len(rows)][1]
         IN IF \E k \in 1..Len(front) : front[k] = c THEN front ELSE Append(front, c)

MapIds == [k \in 1..Len(connections_map) |-> connections_map[k].id]

\* The (name, value) pairs of a parameter map
Pairs(parameters) == {<<n, parameters[n]>> : n \in DOMAIN parameters}

\* The (name, value) pairs of the folded rows of id c whose name is not NULL
RowPairs(c) ==
    {<<raw_data[k][5], raw_data[k][6]>> :
        k \in {j \in 1..row_i : raw_data[j][1] = c /\ raw_data[j][5] # NULL}}

\* The last folded row of id c with parameter name n
LastRowOf(c, n) ==
    CHOOSE k \in 1..row_i :
        /\ raw_data[k][1] = c /\ raw_data[k][5] = n
        /\ \A j \in (k + 1)..row_i : ~(raw_data[j][1] = c /\ raw_data[j][5] = n)

InBuild == db_pc \in {"build", "write"} \/ (db_pc = "exited" /\ conn = "closed")

\* C7 as stated: one record per distinct id in first-encounter order, each
\* parameter map holding exactly the (name, value) pairs of its id's rows
\* with a non-null name.
C7_ExactPairs ==
    InBuild =>
      /\ MapIds = FirstSeen(Folded)
      /\ \A k \in 1..Len(connections_map) :
           Pairs(connections_map[k].rec.parameters) = RowPairs(connections_map[k].id)

\* C7 amended: one record per distinct id in first-encounter order; each
\* parameter map has as keys exactly the non-null parameter names of its id's
\* rows, each mapped to the value of the last such row (so exactly the rows'
\* pairs when no id repeats a parameter name); the returned list is the
\* records in that order.
C7_LastValueWins ==
    InBuild =>
      /\ MapIds = FirstSeen(Folded)
      /\ \A k \in 1..Len(connections_map) :
           LET c == connections_map[k].id
               parameters == connections_map[k].rec.parameters
           IN /\ DOMAIN parameters = {p[1] : p \in RowPairs(c)}
              /\ NULL \notin DOMAIN parameters
              /\ \A n \in DOMAIN parameters :
                   parameters[n] = raw_data[LastRowOf(c, n)][6]
      /\ db_pc \in {"write", "exited"} =>
           connections_list = [k \in 1..Len(connections_map) |-> connections_map[k].rec]

C7_Witness ==
    /\ db_pc = "exited" /\ file_written
    /\ Len(raw_data) = 3 /\ Len(connections_list) = 2
    /\ \E k \in 1..3 : raw_data[k][5] = NULL
    /\ \E j, k \in 1..3 : /\ j < k /\ raw_data[j][1] = raw_data[k][1]
                          /\ raw_data[j][5] = "port" /\ raw_data[k][5] = "port"
                          /\ raw_data[j][6] # raw_data[k][6]

\* C10 as stated: the record of an id carries the name of the id's first row
\* and, as protocol, that row's group-path column (the third of the query).
C10_ProtocolFromGroupPath ==
    InBuild =>
      \A k \in 1..Len(connections_map) :
        LET first == raw_data[FirstRowOf(connections_map[k].id)]
        IN /\ connections_map[k].rec.name = first[2]
           /\ connections_map[k].rec.protocol = first[3]

\* C10 amended: the first row seen for an id creates the record with its name
\* from the connection-name column, its protocol from the protocol column
\* (the fourth of the query) and its group from the group-path column (the
\* third); later rows of the id never change name, protocol or group.
C10_ProtocolFromProtocolColumn ==
    InBuild =>
      /\ \A k \in 1..Len(connections_map) :
           LET first == raw_data[FirstRowOf(connections_map[k].id)]
           IN /\ connections_map[k].rec.name = first[2]
              /\ connections_map[k].rec.protocol = first[4]
              /\ connections_map[k].rec.group = first[3]
      /\ {connections_map[k].id : k \in 1..Len(connections_map)}
           = {raw_data[j][1] : j \in 1..row_i}

C10_Witness ==
    /\ db_pc = "exited" /\ file_written
    /\ Len(raw_data) = 2 /\ Len(connections_list) = 1
    /\ raw_data[1][2] # raw_data[2][2]
    /\ raw_data[1][3] # raw_data[2][3]
    /\ raw_data[1][4] # raw_data[2][4]
    /\ connections_list[1].protocol = "rdp"
    /\ connections_list[1].group = "ROOT/lab"

====
